---- MODULE Spec2Model ----
(***************************************************************************)
(* NASA Astronomy MCP server (src/main.py).                                *)
(*                                                                         *)
(* A bearer-token gate (SimpleBearerAuthProvider.load_access_token) stands *)
(* in front of three tools: validate, get_apod_with_image and get_planet.  *)
(* Each inbound call is a coroutine; its suspension points are the         *)
(* outbound HTTP requests.  The model runs MaxCalls such coroutines        *)
(* interleaved, with the upstream servers as a nondeterministic            *)
(* environment that answers each request.                                  *)
(*                                                                         *)
(* Python values are tagged records, so that None, strings, lists and      *)
(* dicts stay distinguishable: [t |-> "None"], [t |-> "str", v |-> s], ... *)
(***************************************************************************)
EXTENDS Integers, Sequences, FiniteSets, TLC

\* Number of inbound calls that may be in flight at the same time.
MaxCalls == 2

Calls == 1..MaxCalls

----------------------------------------------------------------------------
(* Python values *)

None == [t |-> "None"]
Str(s) == [t |-> "str", v |-> s]
Bool(b) == [t |-> "bool", v |-> b]
Num(n) == [t |-> "num", v |-> n]
List(l) == [t |-> "list", v |-> l]
Dict(d) == [t |-> "dict", v |-> d]

\* dict.get(k, default)
Get(d, k, default) == IF k \in DOMAIN d.v THEN d.v[k] ELSE default

\* Python truthiness, as used by `if date:` and `if image_url:`
Truthy(x) ==
    CASE x.t = "None" -> FALSE
      [] x.t = "str" -> x.v # ""
      [] x.t = "bool" -> x.v
      [] x.t = "list" -> x.v # <<>>
      [] OTHER -> TRUE

\* Exceptions.  str(e) of either kind is its msg.
Exc(type, msg) == [type |-> type, msg |-> msg]
McpError(code, message) == [type |-> "McpError", code |-> code, msg |-> message]
StrOf(e) == e.msg

----------------------------------------------------------------------------
(* base64.b64encode(content).decode('utf-8') over a sequence of bytes *)

B64Alphabet ==
    << "A","B","C","D","E","F","G","H","I","J","K","L","M","N","O","P",
       "Q","R","S","T","U","V","W","X","Y","Z","a","b","c","d","e","f",
       "g","h","i","j","k","l","m","n","o","p","q","r","s","t","u","v",
       "w","x","y","z","0","1","2","3","4","5","6","7","8","9","+","/" >>

B64Char(i) == B64Alphabet[i + 1]

RECURSIVE b64encode(_)
b64encode(b) ==
    IF Len(b) = 0 THEN ""
    ELSE IF Len(b) = 1 THEN
        B64Char(b[1] \div 4) \o B64Char((b[1] % 4) * 16) \o "=="
    ELSE IF Len(b) = 2 THEN
        B64Char(b[1] \div 4) \o B64Char((b[1] % 4) * 16 + b[2] \div 16)
            \o B64Char((b[2] % 16) * 4) \o "="
    ELSE
        B64Char(b[1] \div 4) \o B64Char((b[1] % 4) * 16 + b[2] \div 16)
            \o B64Char((b[2] % 16) * 4 + b[3] \div 64) \o B64Char(b[3] % 64)
            \o b64encode(SubSeq(b, 4, Len(b)))

----------------------------------------------------------------------------
(* planet.lower() and quote_plus over a sequence of characters *)

\* str.lower() on the letters the modelled names use.
LowerChar(ch) ==
    CASE ch = "M" -> "m"
      [] ch = "I" -> "i"
      [] OTHER -> ch

\* quote_plus on one character: space to "+", "/" escaped, letters kept.
QuoteChar(ch) ==
    CASE ch = " " -> "+"
      [] ch = "/" -> "%2F"
      [] OTHER -> ch

RECURSIVE QuotePlusLower(_)
QuotePlusLower(name) ==
    IF name = <<>> THEN ""
    ELSE QuoteChar(LowerChar(Head(name))) \o QuotePlusLower(Tail(name))

----------------------------------------------------------------------------
(* Process-wide configuration: TOKEN, MY_NUMBER, NASA_API_KEY *)

Configs ==
    { [TOKEN |-> "s3cret", MY_NUMBER |-> "919876543210", NASA_API_KEY |-> "KEY1"],
      [TOKEN |-> "other", MY_NUMBER |-> "14155550100", NASA_API_KEY |-> "DEMO_KEY"] }

\* Bearer tokens a caller may present.
Tokens == {"s3cret", "other"}

INVALID_PARAMS == "INVALID_PARAMS"
INTERNAL_ERROR == "INTERNAL_ERROR"

----------------------------------------------------------------------------
(* Token authenticator *)

AccessToken(token, client_id, scopes, expires_at) ==
    [token |-> token, client_id |-> client_id, scopes |-> scopes,
     expires_at |-> expires_at]

\* Variant: the comparison with self.token is dropped.
load_access_token_any(self_token, token) ==
    AccessToken(token, "puch-client", <<"*">>, None)

load_access_token(self_token, token) ==
    IF token = self_token
    THEN AccessToken(token, "puch-client", <<"*">>, None)
    ELSE None

\* FastMCP(auth=...): a tool is dispatched only when the provider gave a grant.
Authorized(g) == g # None

----------------------------------------------------------------------------
(* Tool inputs *)

Tools == {"validate", "get_apod_with_image", "get_planet"}

Dates == {None, Str("2024-01-01")}

PlanetNames == { <<"M","a","r","s">>, <<"I","o"," ","b">> }

Args(t) ==
    CASE t = "validate" -> {None}
      [] t = "get_apod_with_image" -> Dates
      [] t = "get_planet" -> {List(n) : n \in PlanetNames}

----------------------------------------------------------------------------
(* Upstream responses *)

NetworkError == [kind |-> "raise", exc |-> Exc("ConnectError", "All connection attempts failed")]

\* An HTTP response: status_code, the body as response.json() sees it
\* (valid = FALSE: the body is not JSON) and the raw content bytes.
Http(status, valid, json, content) ==
    [kind |-> "http", status_code |-> status, valid |-> valid, json |-> json,
     content |-> content]

JsonBody(status, d) == Http(status, TRUE, d, <<>>)
NotJson(status) == Http(status, FALSE, None, <<>>)
RawBody(status, bytes) == Http(status, FALSE, None, bytes)

JSONDecodeError == Exc("JSONDecodeError", "Expecting value: line 1 column 1 (char 0)")

ImageUrl == "https://apod.nasa.gov/apod/image/a.jpg"
VideoUrl == "https://www.youtube.com/embed/v"
ThumbUrl == "https://img.youtube.com/vi/v/0.jpg"

ApodImagePayload ==
    Dict([title |-> Str("Nebula"), date |-> Str("2024-01-01"),
          explanation |-> Str("A nebula."), media_type |-> Str("image"),
          url |-> Str(ImageUrl), hdurl |-> Str("https://apod.nasa.gov/apod/image/a_hd.jpg")])

ApodVideoPayload ==
    Dict([date |-> Str("2024-01-02"), explanation |-> Str("A video."),
          media_type |-> Str("video"), url |-> Str(VideoUrl),
          thumbnail_url |-> Str(ThumbUrl)])

ApodEmptyUrlPayload ==
    Dict([title |-> Str("Blank"), media_type |-> Str("image"), url |-> Str("")])

ApodNoUrlPayload ==
    Dict([media_type |-> Str("image"), thumbnail_url |-> None])

ApodPayloads ==
    {ApodImagePayload, ApodVideoPayload, ApodEmptyUrlPayload, ApodNoUrlPayload}

MetaResponses ==
    {NetworkError, JsonBody(500, Dict([msg |-> Str("Internal error")])), NotJson(200)}
        \cup {JsonBody(200, p) : p \in ApodPayloads}

\* "Man" and the empty body.
ImageContents == {<<77, 97, 110>>, <<>>}

ImageResponses ==
    {NetworkError, RawBody(404, <<60, 104>>)} \cup {RawBody(200, b) : b \in ImageContents}

Moon(n) == Dict([moon |-> Str(n), rel |-> Str("https://api.le-systeme-solaire.net/rest/bodies/" \o n)])

MarsPayload ==
    Dict([englishName |-> Str("Mars"), isPlanet |-> Bool(TRUE), gravity |-> Num("3.71"),
          density |-> Num("3.9341"), moons |-> List(<<Moon("Phobos"), Moon("Deimos")>>)])

\* The upstream sends "moons": null for a body without satellites.
MercuryPayload ==
    Dict([englishName |-> Str("Mercury"), isPlanet |-> Bool(TRUE), gravity |-> Num("3.7"),
          density |-> Num("5.4291"), moons |-> None])

NoMoonsKeyPayload ==
    Dict([englishName |-> Str("Ceres"), gravity |-> Num("0.28"), density |-> Num("2.161")])

BadMoonPayload ==
    Dict([englishName |-> Str("Io b"), isPlanet |-> Bool(FALSE),
          moons |-> List(<<Dict([rel |-> Str("x")])>>)])

PlanetPayloads == {MarsPayload, MercuryPayload, NoMoonsKeyPayload, BadMoonPayload}

PlanetResponses ==
    {NetworkError, NotJson(404), JsonBody(500, Dict([msg |-> Str("Internal error")])),
     NotJson(500)}
        \cup {JsonBody(200, p) : p \in PlanetPayloads}

----------------------------------------------------------------------------
(* fetch_apod_with_image, cut at its two awaits *)

ApodUrl(key, date) ==
    "https://api.nasa.gov/planetary/apod?api_key=" \o key \o "&thumbs=True"
        \o (IF Truthy(date) THEN "&date=" \o date.v ELSE "")

\* From the metadata response to `data = response.json()`.
ApodMetadata(r) ==
    IF r.kind = "raise" THEN [ok |-> FALSE, exc |-> r.exc]
    ELSE IF r.status_code # 200
        THEN [ok |-> FALSE, exc |-> McpError(INVALID_PARAMS, "Failed to fetch APOD data")]
    ELSE IF ~r.valid THEN [ok |-> FALSE, exc |-> JSONDecodeError]
    ELSE [ok |-> TRUE, data |-> r.json]

\* Variant: the `if image_url:` test is dropped.
ImageWanted_any_url(d) == Get(d, "media_type", None) = Str("image")

\* if data.get("media_type") == "image": ... if image_url:
ImageWanted(d) ==
    /\ Get(d, "media_type", None) = Str("image")
    /\ Truthy(Get(d, "url", None))

\* Variant: the status_code == 200 test is dropped.
ImageTry_any_status(cur, r) ==
    IF r.kind = "raise" THEN [ok |-> FALSE, exc |-> r.exc]
    ELSE [ok |-> TRUE, image_base64 |-> Str(b64encode(r.content))]

\* The body of the try block: the image request and the status test.
ImageTry(cur, r) ==
    IF r.kind = "raise" THEN [ok |-> FALSE, exc |-> r.exc]
    ELSE IF r.status_code = 200
        THEN [ok |-> TRUE, image_base64 |-> Str(b64encode(r.content))]
    ELSE [ok |-> TRUE, image_base64 |-> cur]

\* Variant: the except clause lets the error out.
ImageExcept_reraise(cur, e) == [ok |-> FALSE, exc |-> e]

\* except Exception as e: print(...)
ImageExcept(cur, e) == [ok |-> TRUE, image_base64 |-> cur]

ImageFetch(cur, r) ==
    LET t == ImageTry(cur, r) IN IF t.ok THEN t ELSE ImageExcept(cur, t.exc)

\* Variant: url falls back to thumbnail_url when media_type is not "image".
ApodRecord_display_fallback(d, image_base64) ==
    Dict([title |-> Get(d, "title", Str("Untitled")),
          date |-> Get(d, "date", None),
          explanation |-> Get(d, "explanation", None),
          media_type |-> Get(d, "media_type", None),
          url |-> IF Get(d, "media_type", None) = Str("image")
                  THEN Get(d, "url", None)
                  ELSE Get(d, "thumbnail_url", None),
          hdurl |-> Get(d, "hdurl", None),
          thumbnail |-> Get(d, "thumbnail_url", None),
          image_base64 |-> image_base64])

\* The returned dict.
ApodRecord(d, image_base64) ==
    Dict([title |-> Get(d, "title", Str("Untitled")),
          date |-> Get(d, "date", None),
          explanation |-> Get(d, "explanation", None),
          media_type |-> Get(d, "media_type", None),
          url |-> Get(d, "url", None),
          hdurl |-> Get(d, "hdurl", None),
          thumbnail |-> Get(d, "thumbnail_url", None),
          image_base64 |-> image_base64])

\* Variant: an McpError from the fetch function passes through unwrapped.
ApodToolError_reraise(e) ==
    IF e.type = "McpError" THEN e
    ELSE McpError(INTERNAL_ERROR, "APOD fetch error: " \o StrOf(e))

\* get_apod_with_image: except Exception as e: raise McpError(...)
ApodToolError(e) == McpError(INTERNAL_ERROR, "APOD fetch error: " \o StrOf(e))

----------------------------------------------------------------------------
(* fetch_planet_info *)

PlanetUrl(planet) ==
    "https://api.le-systeme-solaire.net/rest/bodies/" \o QuotePlusLower(planet.v)

PlanetNotFound ==
    McpError(INVALID_PARAMS,
             "Planet not found. Try: mercury, venus, earth, mars, jupiter, saturn, uranus, neptune")

\* [moon["moon"] for moon in data.get("moons", [])]
MoonNames(d) ==
    LET ms == Get(d, "moons", List(<<>>)) IN
    IF ms.t # "list"
        THEN [ok |-> FALSE, exc |-> Exc("TypeError", "'NoneType' object is not iterable")]
    ELSE IF \E i \in 1..Len(ms.v) : "moon" \notin DOMAIN ms.v[i].v
        THEN [ok |-> FALSE, exc |-> Exc("KeyError", "'moon'")]
    ELSE [ok |-> TRUE, value |-> List([i \in 1..Len(ms.v) |-> ms.v[i].v["moon"]])]

\* From the response to the returned dict.
PlanetInfo(r) ==
    IF r.kind = "raise" THEN [ok |-> FALSE, exc |-> r.exc]
    ELSE IF r.status_code = 404 THEN [ok |-> FALSE, exc |-> PlanetNotFound]
    ELSE IF ~r.valid THEN [ok |-> FALSE, exc |-> JSONDecodeError]
    ELSE LET d == r.json
             m == MoonNames(d)
         IN IF ~m.ok THEN m
            ELSE [ok |-> TRUE,
                  value |-> Dict([name |-> Get(d, "englishName", None),
                                  is_planet |-> Get(d, "isPlanet", Bool(FALSE)),
                                  gravity |-> Get(d, "gravity", None),
                                  density |-> Get(d, "density", None),
                                  moons |-> m.value])]

\* get_planet: except Exception as e: raise McpError(...)
PlanetToolError(e) == McpError(INTERNAL_ERROR, "Planet fetch error: " \o StrOf(e))

----------------------------------------------------------------------------
(* Calls in flight *)

VARIABLES
    cfg,            \* TOKEN, MY_NUMBER, NASA_API_KEY, read at import
    pc,             \* where each call is
    tool,           \* the tool each call names
    arg,            \* its argument (date or planet_name)
    presented,      \* the bearer token it presents
    grant,          \* what load_access_token returned for it
    reqs,           \* the outbound requests it has issued, in order
    resps,          \* the upstream's answers to them, in order
    data,           \* local `data` of fetch_apod_with_image
    image_base64,   \* local `image_base64` of fetch_apod_with_image
    outcome         \* how the call ended

vars == <<cfg, pc, tool, arg, presented, grant, reqs, resps, data, image_base64, outcome>>

Pending == [kind |-> "pending"]
Unauthorized == [kind |-> "unauthorized"]
Return(v) == [kind |-> "return", value |-> v]
Raise(e) == [kind |-> "raise", exc |-> e]

GET(url) == [method |-> "GET", url |-> url]

\* Variant: the variable is a module-level global, one slot for all calls.
Store_shared(f, c, v) == [d \in DOMAIN f |-> v]

\* A local variable lives in the frame of the call that writes it.
Store(f, c, v) == [f EXCEPT ![c] = v]

Init ==
    /\ cfg \in Configs
    /\ pc = [c \in Calls |-> "idle"]
    /\ tool = [c \in Calls |-> ""]
    /\ arg = [c \in Calls |-> None]
    /\ presented = [c \in Calls |-> ""]
    /\ grant = [c \in Calls |-> None]
    /\ reqs = [c \in Calls |-> <<>>]
    /\ resps = [c \in Calls |-> <<>>]
    /\ data = [c \in Calls |-> None]
    /\ image_base64 = [c \in Calls |-> None]
    /\ outcome = [c \in Calls |-> Pending]

\* An inbound call arrives and passes the bearer-token gate, or is turned away.
Arrive(c) ==
    /\ pc[c] = "idle"
    /\ \E t \in Tools, tok \in Tokens : \E a \in Args(t) :
        LET g == load_access_token(cfg.TOKEN, tok) IN
        /\ tool' = [tool EXCEPT ![c] = t]
        /\ arg' = [arg EXCEPT ![c] = a]
        /\ presented' = [presented EXCEPT ![c] = tok]
        /\ grant' = [grant EXCEPT ![c] = g]
        /\ pc' = [pc EXCEPT ![c] = IF Authorized(g) THEN "tool" ELSE "done"]
        /\ outcome' = [outcome EXCEPT ![c] = IF Authorized(g) THEN Pending ELSE Unauthorized]
    /\ UNCHANGED <<cfg, reqs, resps, data, image_base64>>

validate(c) ==
    /\ pc[c] = "tool"
    /\ tool[c] = "validate"
    /\ outcome' = [outcome EXCEPT ![c] = Return(Str(cfg.MY_NUMBER))]
    /\ pc' = [pc EXCEPT ![c] = "done"]
    /\ UNCHANGED <<cfg, tool, arg, presented, grant, reqs, resps, data, image_base64>>

\* get_apod_with_image up to `await client.get(url)`.
get_apod_with_image(c) ==
    /\ pc[c] = "tool"
    /\ tool[c] = "get_apod_with_image"
    /\ reqs' = [reqs EXCEPT ![c] = Append(@, GET(Str(ApodUrl(cfg.NASA_API_KEY, arg[c]))))]
    /\ pc' = [pc EXCEPT ![c] = "await_metadata"]
    /\ UNCHANGED <<cfg, tool, arg, presented, grant, resps, data, image_base64, outcome>>

\* The metadata request completes; the call runs to its next await or its end.
metadata_response(c) ==
    /\ pc[c] = "await_metadata"
    /\ \E r \in MetaResponses :
        LET m == ApodMetadata(r) IN
        /\ resps' = [resps EXCEPT ![c] = Append(@, r)]
        /\ IF ~m.ok
           THEN /\ outcome' = [outcome EXCEPT ![c] = Raise(ApodToolError(m.exc))]
                /\ pc' = [pc EXCEPT ![c] = "done"]
                /\ UNCHANGED <<reqs, data, image_base64>>
           ELSE /\ data' = Store(data, c, m.data)
                /\ image_base64' = Store(image_base64, c, None)
                /\ IF ImageWanted(data'[c])
                   THEN /\ reqs' = [reqs EXCEPT ![c] = Append(@, GET(Get(data'[c], "url", None)))]
                        /\ pc' = [pc EXCEPT ![c] = "await_image"]
                        /\ UNCHANGED outcome
                   ELSE /\ outcome' = [outcome EXCEPT ![c] =
                                          Return(ApodRecord(data'[c], image_base64'[c]))]
                        /\ pc' = [pc EXCEPT ![c] = "done"]
                        /\ UNCHANGED reqs
    /\ UNCHANGED <<cfg, tool, arg, presented, grant>>

\* The image request completes; the call returns its record.
image_response(c) ==
    /\ pc[c] = "await_image"
    /\ \E r \in ImageResponses :
        LET f == ImageFetch(image_base64[c], r) IN
        /\ resps' = [resps EXCEPT ![c] = Append(@, r)]
        /\ IF f.ok
           THEN /\ image_base64' = Store(image_base64, c, f.image_base64)
                /\ outcome' = [outcome EXCEPT ![c] =
                                  Return(ApodRecord(data[c], image_base64'[c]))]
           ELSE /\ outcome' = [outcome EXCEPT ![c] = Raise(ApodToolError(f.exc))]
                /\ UNCHANGED image_base64
    /\ pc' = [pc EXCEPT ![c] = "done"]
    /\ UNCHANGED <<cfg, tool, arg, presented, grant, reqs, data>>

\* get_planet up to `await client.get(url)`.
get_planet(c) ==
    /\ pc[c] = "tool"
    /\ tool[c] = "get_planet"
    /\ reqs' = [reqs EXCEPT ![c] = Append(@, GET(Str(PlanetUrl(arg[c]))))]
    /\ pc' = [pc EXCEPT ![c] = "await_planet"]
    /\ UNCHANGED <<cfg, tool, arg, presented, grant, resps, data, image_base64, outcome>>

\* The planet request completes; the call returns or raises.
planet_response(c) ==
    /\ pc[c] = "await_planet"
    /\ \E r \in PlanetResponses :
        LET p == PlanetInfo(r) IN
        /\ resps' = [resps EXCEPT ![c] = Append(@, r)]
        /\ outcome' = [outcome EXCEPT ![c] =
                          IF p.ok THEN Return(p.value) ELSE Raise(PlanetToolError(p.exc))]
    /\ pc' = [pc EXCEPT ![c] = "done"]
    /\ UNCHANGED <<cfg, tool, arg, presented, grant, reqs, data, image_base64>>

\* The response is serialized and everything the call built is dropped.
Respond(c) ==
    /\ pc[c] = "done"
    /\ pc' = [pc EXCEPT ![c] = "idle"]
    /\ tool' = [tool EXCEPT ![c] = ""]
    /\ arg' = [arg EXCEPT ![c] = None]
    /\ presented' = [presented EXCEPT ![c] = ""]
    /\ grant' = [grant EXCEPT ![c] = None]
    /\ reqs' = [reqs EXCEPT ![c] = <<>>]
    /\ resps' = [resps EXCEPT ![c] = <<>>]
    /\ data' = [data EXCEPT ![c] = None]
    /\ image_base64' = [image_base64 EXCEPT ![c] = None]
    /\ outcome' = [outcome EXCEPT ![c] = Pending]
    /\ UNCHANGED cfg

Next ==
    \/ \E c \in Calls : Arrive(c)
    \/ \E c \in Calls : validate(c)
    \/ \E c \in Calls : get_apod_with_image(c)
    \/ \E c \in Calls : metadata_response(c)
    \/ \E c \in Calls : image_response(c)
    \/ \E c \in Calls : get_planet(c)
    \/ \E c \in Calls : planet_response(c)
    \/ \E c \in Calls : Respond(c)

Spec == Init /\ [][Next]_vars

----------------------------------------------------------------------------
(* A call run on its own: the tool applied to its argument, its token, the *)
(* configuration and the upstream's answers rs to its own requests.        *)

RunAlone(t, a, tok, config, rs) ==
    IF ~Authorized(load_access_token(config.TOKEN, tok)) THEN Unauthorized
    ELSE IF t = "validate" THEN Return(Str(config.MY_NUMBER))
    ELSE IF t = "get_planet" THEN
        LET p == PlanetInfo(rs[1]) IN
        IF p.ok THEN Return(p.value) ELSE Raise(PlanetToolError(p.exc))
    ELSE
        LET m == ApodMetadata(rs[1]) IN
        IF ~m.ok THEN Raise(ApodToolError(m.exc))
        ELSE IF ~ImageWanted(m.data) THEN Return(ApodRecord(m.data, None))
        ELSE LET f == ImageFetch(None, rs[2]) IN
             IF f.ok THEN Return(ApodRecord(m.data, f.image_base64))
             ELSE Raise(ApodToolError(f.exc))

Done(c) == pc[c] = "done"
Apod(c) == tool[c] = "get_apod_with_image"
Planet(c) == tool[c] = "get_planet"
Returned(c) == Done(c) /\ outcome[c].kind = "return"
Raised(c) == Done(c) /\ outcome[c].kind = "raise"

\* The upstream JSON of a call whose first request was answered with a JSON body.
Upstream(c) == resps[c][1].json

ImageFailed(r) == r.kind = "raise" \/ r.status_code # 200

----------------------------------------------------------------------------
(* C1 *)

\* C1: a call presenting a token other than the configured secret gets no
\* grant (None, not an exception), runs no tool and issues no request; a call
\* presenting the secret gets a grant with client_id "puch-client", scopes
\* ["*"] and expires_at None.
C1_TokenGate ==
    \A c \in Calls : pc[c] # "idle" =>
        /\ presented[c] # cfg.TOKEN =>
            /\ grant[c] = None
            /\ pc[c] = "done"
            /\ outcome[c] = Unauthorized
            /\ reqs[c] = <<>>
        /\ presented[c] = cfg.TOKEN =>
            grant[c] = [token |-> presented[c], client_id |-> "puch-client",
                        scopes |-> <<"*">>, expires_at |-> None]

C1_Witness ==
    \E c, d \in Calls :
        /\ Done(c) /\ presented[c] # cfg.TOKEN /\ tool[c] = "get_planet"
        /\ Done(d) /\ presented[d] = cfg.TOKEN /\ tool[d] = "validate"
        /\ outcome[d] = Return(Str(cfg.MY_NUMBER))

----------------------------------------------------------------------------
(* C2 *)

ToolPrefix(c) == IF Planet(c) THEN "Planet fetch error: " ELSE "APOD fetch error: "

\* What went wrong inside the fetch function of a call that raised.
UnderlyingCause(c) ==
    IF Planet(c) THEN PlanetInfo(resps[c][1]).exc
    ELSE IF Len(resps[c]) = 1 THEN ApodMetadata(resps[c][1]).exc
    ELSE resps[c][2].exc

\* C2: every error that leaves get_apod_with_image or get_planet is one
\* McpError of code INTERNAL_ERROR whose message is the tool's prefix followed
\* by str() of the underlying cause, also when the cause is the INVALID_PARAMS
\* error the fetch function raised itself.
C2_ErrorsWrapped ==
    \A c \in Calls : outcome[c].kind = "raise" =>
        /\ Apod(c) \/ Planet(c)
        /\ outcome[c].exc.type = "McpError"
        /\ outcome[c].exc.code = "INTERNAL_ERROR"
        /\ outcome[c].exc.msg = ToolPrefix(c) \o UnderlyingCause(c).msg

C2_Witness ==
    \E c, d \in Calls :
        /\ Raised(c) /\ Apod(c) /\ UnderlyingCause(c).type = "McpError"
        /\ outcome[c].exc.msg = "APOD fetch error: Failed to fetch APOD data"
        /\ Raised(d) /\ Planet(d) /\ UnderlyingCause(d).type = "ConnectError"

----------------------------------------------------------------------------
(* C3 *)

\* C3: when the metadata request succeeded and the image request fails (a
\* raised error or a status other than 200), get_apod_with_image returns the
\* record with image_base64 None and every other field taken from the
\* metadata; it does not raise.
C3_ImageFailureSwallowed ==
    \A c \in Calls :
        (Done(c) /\ Apod(c) /\ Len(resps[c]) = 2 /\ ImageFailed(resps[c][2])) =>
            /\ outcome[c].kind = "return"
            /\ outcome[c].value =
                 Dict([title |-> Get(Upstream(c), "title", Str("Untitled")),
                       date |-> Get(Upstream(c), "date", None),
                       explanation |-> Get(Upstream(c), "explanation", None),
                       media_type |-> Get(Upstream(c), "media_type", None),
                       url |-> Get(Upstream(c), "url", None),
                       hdurl |-> Get(Upstream(c), "hdurl", None),
                       thumbnail |-> Get(Upstream(c), "thumbnail_url", None),
                       image_base64 |-> None])

C3_Witness ==
    \E c, d \in Calls :
        /\ Returned(c) /\ Apod(c) /\ Len(resps[c]) = 2 /\ resps[c][2].kind = "raise"
        /\ Returned(d) /\ Apod(d) /\ Len(resps[d]) = 2 /\ resps[d][2].kind = "http"
        /\ resps[d][2].status_code = 404

----------------------------------------------------------------------------
(* C4 *)

EightPlanets ==
    "Planet not found. Try: mercury, venus, earth, mars, jupiter, saturn, uranus, neptune"

\* C4: when the upstream answers 404, get_planet ends with an invalid-input
\* error (code INVALID_PARAMS) whose message lists the eight planet names, and
\* returns no record.
C4_NotFoundIsInvalidInput ==
    \A c \in Calls :
        (Done(c) /\ Planet(c) /\ Len(resps[c]) = 1 /\ resps[c][1].kind = "http"
            /\ resps[c][1].status_code = 404) =>
            /\ outcome[c].kind = "raise"
            /\ outcome[c].exc.code = "INVALID_PARAMS"
            /\ outcome[c].exc.msg \in {EightPlanets, "Planet fetch error: " \o EightPlanets}

----------------------------------------------------------------------------
(* C5 *)

\* C5: get_apod_with_image and get_planet return a record only when the
\* primary request was answered with a success status; any other status ends
\* the call with one error and no record.
C5_RecordOnlyOnSuccess ==
    \A c \in Calls :
        (Done(c) /\ (Apod(c) \/ Planet(c)) /\ Len(resps[c]) >= 1) =>
            /\ outcome[c].kind \in {"return", "raise"}
            /\ outcome[c].kind = "return" =>
                (resps[c][1].kind = "http" /\ resps[c][1].status_code = 200)

----------------------------------------------------------------------------
(* C6 *)

\* C6: no request is retried.  A get_planet call issues exactly one request.
\* A get_apod_with_image call issues the metadata request and then at most
\* the image request, the latter only after the former was answered 200 with
\* media_type "image" and a non-empty url; nothing follows a failed metadata
\* request.
C6_NoRetry ==
    \A c \in Calls :
        /\ Len(resps[c]) <= Len(reqs[c])
        /\ (Planet(c) /\ pc[c] \in {"await_planet", "done"} /\ grant[c] # None) =>
            /\ Len(reqs[c]) = 1
            /\ reqs[c][1].url = Str(PlanetUrl(arg[c]))
        /\ Apod(c) =>
            /\ Len(reqs[c]) <= 2
            /\ Len(reqs[c]) >= 1 => reqs[c][1].url = Str(ApodUrl(cfg.NASA_API_KEY, arg[c]))
            /\ (Len(resps[c]) >= 1 /\ ~ApodMetadata(resps[c][1]).ok) => Len(reqs[c]) = 1
            /\ Len(reqs[c]) = 2 =>
                /\ Len(resps[c]) >= 1
                /\ resps[c][1].kind = "http"
                /\ resps[c][1].status_code = 200
                /\ "media_type" \in DOMAIN Upstream(c).v
                /\ Upstream(c).v["media_type"] = Str("image")
                /\ "url" \in DOMAIN Upstream(c).v
                /\ Upstream(c).v["url"] \notin {None, Str("")}
                /\ reqs[c][2].url = Upstream(c).v["url"]

C6_Witness ==
    \E c, d \in Calls :
        /\ Done(c) /\ Apod(c) /\ Len(reqs[c]) = 2 /\ Len(resps[c]) = 2
        /\ Done(d) /\ Apod(d) /\ Len(reqs[d]) = 1
        /\ resps[d][1].kind = "http" /\ resps[d][1].status_code = 200
        /\ Upstream(d) = ApodEmptyUrlPayload

----------------------------------------------------------------------------
(* C7 *)

\* C7: a successful planet payload without satellite data (no moons field, or
\* moons null) gives a record whose moons is []; otherwise moons holds each
\* element's moon name in upstream order; is_planet is false when isPlanet is
\* absent.
C7_MoonsDefaultEmpty ==
    \A c \in Calls :
        (Done(c) /\ Planet(c) /\ Len(resps[c]) = 1 /\ resps[c][1].kind = "http"
            /\ resps[c][1].status_code = 200 /\ resps[c][1].valid) =>
            /\ ("moons" \notin DOMAIN Upstream(c).v \/ Upstream(c).v["moons"] = None) =>
                /\ outcome[c].kind = "return"
                /\ outcome[c].value.v["moons"] = List(<<>>)
            /\ (outcome[c].kind = "return" /\ "isPlanet" \notin DOMAIN Upstream(c).v) =>
                outcome[c].value.v["is_planet"] = Bool(FALSE)
            /\ Upstream(c) = MarsPayload =>
                /\ outcome[c].kind = "return"
                /\ outcome[c].value.v["moons"] = List(<<Str("Phobos"), Str("Deimos")>>)

----------------------------------------------------------------------------
(* C8 *)

\* C8 as claimed: for media_type "video" the record's url is the upstream
\* thumbnail_url and not the upstream url; for "image" it is the upstream url.
C8_Original_VideoUsesThumbnail ==
    \A c \in Calls : (Returned(c) /\ Apod(c)) =>
        /\ Get(Upstream(c), "media_type", None) = Str("video") =>
            /\ outcome[c].value.v["url"] = Get(Upstream(c), "thumbnail_url", None)
            /\ outcome[c].value.v["url"] # Get(Upstream(c), "url", None)
        /\ Get(Upstream(c), "media_type", None) = Str("image") =>
            outcome[c].value.v["url"] = Get(Upstream(c), "url", None)

\* C8: whatever the media_type, the record's url is the upstream url and its
\* thumbnail is the upstream thumbnail_url (None when absent); for a "video"
\* the thumbnail reference is carried by thumbnail only.
C8_UrlPassedThrough ==
    \A c \in Calls : (Returned(c) /\ Apod(c)) =>
        /\ outcome[c].value.v["url"] = Get(Upstream(c), "url", None)
        /\ outcome[c].value.v["thumbnail"] = Get(Upstream(c), "thumbnail_url", None)

C8_Witness ==
    \E c \in Calls :
        /\ Returned(c) /\ Apod(c)
        /\ Get(Upstream(c), "media_type", None) = Str("video")
        /\ outcome[c].value.v["url"] = Str(VideoUrl)
        /\ outcome[c].value.v["thumbnail"] = Str(ThumbUrl)

----------------------------------------------------------------------------
(* C9 *)

\* C9: however calls interleave, a finished call has the outcome it has when
\* run alone on its own argument, token, the configuration and the answers to
\* its own requests; a suspended call holds its own data; two finished calls
\* with the same inputs and answers have the same outcome.
C9_CallsIndependent ==
    /\ \A c \in Calls :
        /\ Done(c) => outcome[c] = RunAlone(tool[c], arg[c], presented[c], cfg, resps[c])
        /\ pc[c] = "await_image" => (data[c] = Upstream(c) /\ image_base64[c] = None)
    /\ \A c, d \in Calls :
        (Done(c) /\ Done(d) /\ tool[c] = tool[d] /\ arg[c] = arg[d]
            /\ presented[c] = presented[d] /\ resps[c] = resps[d]) =>
            outcome[c] = outcome[d]

C9_Witness ==
    \E c, d \in Calls :
        /\ c # d
        /\ Returned(c) /\ Apod(c) /\ Len(resps[c]) = 2
        /\ outcome[c].value.v["title"] = Str("Nebula")
        /\ Returned(d) /\ Apod(d) /\ Len(resps[d]) = 1
        /\ outcome[d].value.v["title"] = Str("Untitled")

----------------------------------------------------------------------------
(* C10 *)

\* C10: a record of get_apod_with_image carries image_base64 exactly when the
\* upstream media_type was "image", the upstream url was present and
\* non-empty, and the image request was answered 200; a "video" record has no
\* image_base64 and its call issued no image request.
C10_ImageBase64Iff ==
    \A c \in Calls : (Returned(c) /\ Apod(c)) =>
        /\ outcome[c].value.v["image_base64"] # None <=>
            /\ Get(Upstream(c), "media_type", None) = Str("image")
            /\ Get(Upstream(c), "url", None) \notin {None, Str("")}
            /\ Len(resps[c]) = 2
            /\ resps[c][2].kind = "http"
            /\ resps[c][2].status_code = 200
        /\ Get(Upstream(c), "media_type", None) = Str("video") =>
            /\ outcome[c].value.v["image_base64"] = None
            /\ Len(reqs[c]) = 1

C10_Witness ==
    \E c, d \in Calls :
        /\ Returned(c) /\ Apod(c) /\ outcome[c].value.v["image_base64"] = Str("TWFu")
        /\ Returned(d) /\ Apod(d) /\ outcome[d].value.v["image_base64"] = Str("")
        /\ Len(resps[d]) = 2

====
